---- MODULE Spec2Model ----
(***************************************************************************)
(* A model of tfolex.py: TelegramDataExtractor.  The state is the state   *)
(* of one run(): the position in run()/_handle_login()/the extractors,    *)
(* the client's connection and authorisation, the login challenge, the    *)
(* local variables of the extractors, and the exports made.  The pure     *)
(* helpers (_get_chat_type_string, _get_rule_based_chat_names, the name   *)
(* building of _get_names_for_peers, sorted) are operators.               *)
(***************************************************************************)
EXTENDS Integers, Sequences, FiniteSets, TLC

VARIABLES
    pc,                 \* position in the code
    connected,          \* client.is_connected()
    authorized,         \* client.is_user_authorized()
    sent_code,          \* _handle_login: sent_code (None, or the challenge's hash)
    codeRequests,       \* number of send_code_request calls answered (the newest hash)
    used_hash,          \* phone_code_hash argument of the last sign_in call
    attempts,           \* number of sign_in calls made
    lastError,          \* exception raised by the last client call ("none" if it returned)
    login_result,       \* what _handle_login did: "pending", "true", "false", "raised"
    interrupted,        \* run caught a KeyboardInterrupt
    menuActions,        \* number of menu choices 1/2 taken
    serverDialogs,      \* the account's dialogs on the server
    dialogFetches,      \* number of client.get_dialogs() calls
    folderCalls,        \* number of _extract_folders invocations
    choices,            \* the extractors' local `choices`
    folders,            \* _extract_folders: folders
    all_dialogs,        \* _extract_folders: all_dialogs
    selected_folders,   \* _extract_folders: selected_folders
    folderIdx,          \* number of folders of selected_folders already processed
    folder,             \* loop variable `folder`
    explicitly_included_names,
    explicitly_excluded_names,
    rule_based_names,
    matched_against,    \* the all_dialogs argument of each rule matching of this invocation
    extracted_data,     \* the extractors' extracted_data
    exports,            \* number of _export_data calls that reached the export prompt
    peers,              \* _get_names_for_peers: peers
    results,            \* asyncio.gather: the result slots
    completion,         \* the order in which the get_entity tasks completed
    requests,           \* number of get_entity requests issued
    names               \* _get_names_for_peers: names

vars == <<pc, connected, authorized, sent_code, codeRequests, used_hash, attempts,
          lastError, login_result, interrupted, menuActions, serverDialogs,
          dialogFetches, folderCalls, choices, folders, all_dialogs,
          selected_folders, folderIdx, folder, explicitly_included_names,
          explicitly_excluded_names, rule_based_names, matched_against,
          extracted_data, exports, peers, results, completion, requests, names>>

loginVars == <<connected, authorized, sent_code, codeRequests, used_hash,
               attempts, login_result>>
runVars == <<lastError, interrupted, menuActions, serverDialogs, dialogFetches,
             folderCalls, exports>>
localVars == <<choices, folders, all_dialogs, selected_folders, folderIdx, folder,
               explicitly_included_names, explicitly_excluded_names,
               rule_based_names, matched_against, extracted_data>>
peerVars == <<peers, results, completion, requests, names>>

(***************************************************************************)
(* Bounds                                                                  *)
(***************************************************************************)
MaxUnread == 1          \* unread_count ranges over 0..MaxUnread
MaxDialogs == 2         \* longest dialog list drawn from DialogPool
MaxPeers == 2           \* longest peer list
MaxExcluded == 1        \* longest exclude_peers list of the folders of FolderSpace
MaxAttempts == 2        \* failing sign_in calls / code requests per login
MaxMenuActions == 2     \* menu choices 1/2 per run

None == 0               \* Python's None for sent_code

RECURSIVE SeqsUpTo(_, _)
SeqsUpTo(S, n) ==
    IF n = 0 THEN {<<>>}
    ELSE LET shorter == SeqsUpTo(S, n - 1)
         IN  shorter \cup {Append(s, x) : s \in {t \in shorter : Len(t) = n - 1}, x \in S}

Range(s) == {s[i] : i \in DOMAIN s}

(***************************************************************************)
(* str: comparison as Python compares strings, by code point.             *)
(***************************************************************************)
Alphabet == " ()/0123456789:ABCDEFGHIJKLMNOPQRSTUVWXYZabcdefghijklmnopqrstuvwxyz"

\* ord(c), up to the order of the characters in use
CharRanks ==
    [c \in {SubSeq(Alphabet, k, k) : k \in 1..Len(Alphabet)} |->
        CHOOSE k \in 1..Len(Alphabet) : SubSeq(Alphabet, k, k) = c]

CharRank(c) == CharRanks[c]

RECURSIVE StrLessFrom(_, _, _)
StrLessFrom(s, t, i) ==
    IF i > Len(s) THEN i <= Len(t)
    ELSE IF i > Len(t) THEN FALSE
    ELSE LET a == CharRank(SubSeq(s, i, i))
             b == CharRank(SubSeq(t, i, i))
         IN  IF a = b THEN StrLessFrom(s, t, i + 1) ELSE a < b

StrLess(s, t) == StrLessFrom(s, t, 1)

\* sorted(iterable of distinct strings): the ascending list
RECURSIVE Sorted(_)
Sorted(S) ==
    IF S = {} THEN <<>>
    ELSE LET least == CHOOSE x \in S : \A y \in S \ {x} : StrLess(x, y)
         IN  <<least>> \o Sorted(S \ {least})

(***************************************************************************)
(* Dialogs and folders                                                     *)
(***************************************************************************)
\* getattr(entity, attr, False)
GetAttr(entity, attr) == IF attr \in DOMAIN entity THEN entity[attr] ELSE FALSE

UserEntities == {[contact |-> c, bot |-> b] : c \in BOOLEAN, b \in BOOLEAN}
OtherEntity == [title |-> TRUE]

MkDialog(nm, g, c, u, e, m, uc, um, a) ==
    [name |-> nm, is_group |-> g, is_channel |-> c, is_user |-> u, entity |-> e,
     muted |-> m, unread_count |-> uc, unread_mark |-> um, archived |-> a]

\* Every dialog of a given name: a user (with its contact/bot attributes), or a
\* non-user entity with any combination of is_group / is_channel.
DialogsNamed(nm) ==
    {MkDialog(nm, FALSE, FALSE, TRUE, e, m, uc, um, a) :
        e \in UserEntities, m \in BOOLEAN, uc \in 0..MaxUnread,
        um \in BOOLEAN, a \in BOOLEAN}
    \cup
    {MkDialog(nm, g, c, FALSE, OtherEntity, m, uc, um, a) :
        g \in BOOLEAN, c \in BOOLEAN, m \in BOOLEAN, uc \in 0..MaxUnread,
        um \in BOOLEAN, a \in BOOLEAN}

RuleFlags ==
    [contacts : BOOLEAN, non_contacts : BOOLEAN, groups : BOOLEAN,
     broadcasts : BOOLEAN, bots : BOOLEAN, exclude_muted : BOOLEAN,
     exclude_read : BOOLEAN, exclude_archived : BOOLEAN]

MkFolder(id, rules, pinned, incl, excl) ==
    [type |-> "DialogFilter", id |-> id, rules |-> rules, pinned_peers |-> pinned,
     include_peers |-> incl, exclude_peers |-> excl]

NoRules ==
    [contacts |-> FALSE, non_contacts |-> FALSE, groups |-> FALSE,
     broadcasts |-> FALSE, bots |-> FALSE, exclude_muted |-> FALSE,
     exclude_read |-> FALSE, exclude_archived |-> FALSE]

(***************************************************************************)
(* _get_chat_type_string                                                   *)
(***************************************************************************)
GetChatTypeString(dialog) ==
    IF dialog.is_group THEN "Group"
    ELSE IF dialog.is_channel THEN "Channel"
    ELSE IF dialog.is_user
         THEN (IF GetAttr(dialog.entity, "bot") THEN "Bot" ELSE "Personal")
    ELSE "Unknown"

(***************************************************************************)
(* _get_rule_based_chat_names                                              *)
(***************************************************************************)
\* the exclusion test without its exclude_muted condition
RuleExcluded_ignoresMuted(rules, dialog) ==
    \/ rules.exclude_read /\ dialog.unread_count = 0 /\ ~dialog.unread_mark
    \/ rules.exclude_archived /\ dialog.archived

RuleExcluded(rules, dialog) ==
    \/ rules.exclude_muted /\ dialog.muted
    \/ rules.exclude_read /\ dialog.unread_count = 0 /\ ~dialog.unread_mark
    \/ rules.exclude_archived /\ dialog.archived

RuleIncluded(rules, dialog) ==
    LET is_contact == GetAttr(dialog.entity, "contact")
        is_bot == GetAttr(dialog.entity, "bot")
        is_personal_non_contact == dialog.is_user /\ ~is_contact /\ ~is_bot
    IN  \/ rules.contacts /\ is_contact
        \/ rules.groups /\ dialog.is_group
        \/ rules.broadcasts /\ dialog.is_channel
        \/ rules.bots /\ is_bot
        \/ rules.non_contacts /\ is_personal_non_contact

\* the for loop: matching_names after the dialogs from position i on
RECURSIVE RuleLoop(_, _, _, _)
RuleLoop(rules, dialogs, i, matching_names) ==
    IF i > Len(dialogs) THEN matching_names
    ELSE IF RuleExcluded(rules, dialogs[i])
         THEN RuleLoop(rules, dialogs, i + 1, matching_names)
    ELSE IF RuleIncluded(rules, dialogs[i])
         THEN RuleLoop(rules, dialogs, i + 1, Append(matching_names, dialogs[i].name))
    ELSE RuleLoop(rules, dialogs, i + 1, matching_names)

GetRuleBasedChatNames(f, dialogs) == RuleLoop(f.rules, dialogs, 1, <<>>)

(***************************************************************************)
(* Peers, the entities the server knows, and _get_names_for_peers          *)
(***************************************************************************)
PeerUser(n) == [user_id |-> n]
PeerChat(n) == [chat_id |-> n]
PeerChannel(n) == [channel_id |-> n]

PeerPool == {PeerUser(1), PeerChat(2), PeerChannel(3), PeerUser(4)}

\* what get_entity(peer) returns when it succeeds
EntityOf(peer) ==
    IF peer = PeerUser(1) THEN [id |-> 1, first_name |-> "Alice"]
    ELSE IF peer = PeerChat(2) THEN [id |-> 2, title |-> "Team Alpha"]
    ELSE IF peer = PeerChannel(3) THEN [id |-> 3, title |-> "News"]
    ELSE [id |-> 4, first_name |-> "Alice"]

Pending == [state |-> "pending"]
Raised == [state |-> "exception"]
Returned(entity) == [state |-> "ok", value |-> entity]

\* getattr(peer, 'channel_id', getattr(peer, 'user_id', 'N/A')), as the f-string prints it
PeerIdText(peer) ==
    IF "channel_id" \in DOMAIN peer THEN ToString(peer.channel_id)
    ELSE IF "user_id" \in DOMAIN peer THEN ToString(peer.user_id)
    ELSE "N/A"

PlaceholderName(peer) == "Unknown/Inaccessible Entity (ID: " \o PeerIdText(peer) \o ")"

\* getattr(res, 'title', getattr(res, 'first_name', f'User {res.id}'))
ResultName(res) ==
    IF "title" \in DOMAIN res THEN res.title
    ELSE IF "first_name" \in DOMAIN res THEN res.first_name
    ELSE "User " \o ToString(res.id)

\* for i, res in enumerate(results): names.append(...)
RECURSIVE NamesLoop(_, _, _, _)
NamesLoop(ps, rs, i, acc) ==
    IF i > Len(rs) THEN acc
    ELSE IF rs[i].state = "exception"
         THEN NamesLoop(ps, rs, i + 1, Append(acc, PlaceholderName(ps[i])))
    ELSE NamesLoop(ps, rs, i + 1, Append(acc, ResultName(rs[i].value)))

\* a gather that fills the slots in the order of completion
GatherStore_byCompletion(rs, i, outcome) ==
    LET k == CHOOSE j \in DOMAIN rs :
                 rs[j] = Pending /\ \A l \in DOMAIN rs : rs[l] = Pending => j <= l
    IN  [rs EXCEPT ![k] = outcome]

\* asyncio.gather(*tasks, return_exceptions=True): task i's outcome goes to slot i
GatherStore(rs, i, outcome) == [rs EXCEPT ![i] = outcome]

\* the whole of _get_names_for_peers, the peers at the positions in `failed` failing
GetNamesForPeers(ps, failed) ==
    IF ps = <<>> THEN <<>>
    ELSE NamesLoop(ps,
                   [i \in DOMAIN ps |->
                       IF i \in failed THEN Raised ELSE Returned(EntityOf(ps[i]))],
                   1, <<>>)

(***************************************************************************)
(* Values of the variables an operation does not use                       *)
(***************************************************************************)
NoFolder == MkFolder(0, NoRules, <<>>, <<>>, <<>>)

IdleLogin ==
    /\ connected = FALSE /\ authorized = FALSE /\ sent_code = None
    /\ codeRequests = 0 /\ used_hash = None /\ attempts = 0
    /\ lastError = "none" /\ login_result = "pending" /\ interrupted = FALSE

IdleMenu ==
    /\ menuActions = 0 /\ serverDialogs = <<>> /\ dialogFetches = 0
    /\ folderCalls = 0 /\ choices = {} /\ exports = 0

IdleFolders ==
    /\ folders = <<>> /\ selected_folders = <<>> /\ folderIdx = 0
    /\ explicitly_included_names = <<>> /\ explicitly_excluded_names = <<>>
    /\ matched_against = <<>> /\ extracted_data = <<>>

IdlePeers ==
    /\ peers = <<>> /\ results = <<>> /\ completion = <<>>
    /\ requests = 0 /\ names = <<>>

(***************************************************************************)
(* _get_rule_based_chat_names applied to every rule set and dialog          *)
(***************************************************************************)
DialogPool ==
    {MkDialog("Alice", FALSE, FALSE, TRUE, [contact |-> TRUE, bot |-> FALSE],
              TRUE, 1, FALSE, FALSE),
     MkDialog("Alice", TRUE, FALSE, FALSE, OtherEntity, FALSE, 1, FALSE, FALSE),
     MkDialog("News", FALSE, TRUE, FALSE, OtherEntity, FALSE, 0, FALSE, TRUE),
     MkDialog("News", FALSE, FALSE, TRUE, [contact |-> FALSE, bot |-> TRUE],
              FALSE, 0, TRUE, FALSE),
     MkDialog("Team Alpha", TRUE, TRUE, FALSE, OtherEntity, TRUE, 0, FALSE, FALSE)}

DialogNames == {"Alice", "News", "Team Alpha"}

InitRules ==
    /\ pc = "rules_call"
    /\ folder \in {MkFolder(1, r, <<>>, <<>>, <<>>) : r \in RuleFlags}
    /\ all_dialogs \in {<<d>> : d \in DialogsNamed("Alice")}
                       \cup SeqsUpTo(DialogPool, MaxDialogs)
    /\ rule_based_names = <<>>
    /\ IdleLogin /\ IdleMenu /\ IdleFolders /\ IdlePeers

ApplyRules ==
    /\ pc = "rules_call"
    /\ rule_based_names' = GetRuleBasedChatNames(folder, all_dialogs)
    /\ pc' = "rules_done"
    /\ UNCHANGED <<loginVars, runVars, peerVars>>
    /\ UNCHANGED <<choices, folders, all_dialogs, selected_folders, folderIdx,
                   folder, explicitly_included_names, explicitly_excluded_names,
                   matched_against, extracted_data>>

NextRules == ApplyRules

SpecRules == InitRules /\ [][NextRules]_vars

\* C2: a name is returned by _get_rule_based_chat_names exactly when some dialog
\* of that name is not short-circuited by an exclusion toggle and matches at
\* least one active inclusion rule.
C2_RuleMatcherIff ==
    pc = "rules_done" =>
        \A nm \in DialogNames :
            (nm \in Range(rule_based_names)) <=>
                \E i \in DOMAIN all_dialogs :
                    LET d == all_dialogs[i]
                        r == folder.rules
                        contact == IF "contact" \in DOMAIN d.entity
                                   THEN d.entity.contact ELSE FALSE
                        bot == IF "bot" \in DOMAIN d.entity
                               THEN d.entity.bot ELSE FALSE
                    IN  /\ d.name = nm
                        /\ ~(r.exclude_muted /\ d.muted)
                        /\ ~(r.exclude_read /\ d.unread_count = 0 /\ ~d.unread_mark)
                        /\ ~(r.exclude_archived /\ d.archived)
                        /\ \/ r.contacts /\ contact
                           \/ r.groups /\ d.is_group
                           \/ r.broadcasts /\ d.is_channel
                           \/ r.bots /\ bot
                           \/ r.non_contacts /\ d.is_user /\ ~contact /\ ~bot

\* a muted group under exclude_muted and groups is left out, while another
\* dialog of the list is returned
C2_Witness ==
    /\ pc = "rules_done"
    /\ folder.rules.exclude_muted /\ folder.rules.groups
    /\ Len(all_dialogs) = 2
    /\ all_dialogs[1].muted /\ all_dialogs[1].is_group
    /\ all_dialogs[1].name \notin Range(rule_based_names)
    /\ rule_based_names = <<all_dialogs[2].name>>

(***************************************************************************)
(* _get_names_for_peers, with its get_entity tasks completing in any order *)
(***************************************************************************)
UnchangedByPeers == UNCHANGED <<loginVars, runVars, localVars>>

InitPeers ==
    /\ pc = "peers_call"
    /\ peers \in SeqsUpTo(PeerPool, MaxPeers)
    /\ results = <<>> /\ completion = <<>> /\ requests = 0 /\ names = <<>>
    /\ folder = NoFolder /\ all_dialogs = <<>> /\ rule_based_names = <<>>
    /\ IdleLogin /\ IdleMenu /\ IdleFolders

\* if not peers: return []
PeersEmpty ==
    /\ pc = "peers_call"
    /\ peers = <<>>
    /\ names' = <<>>
    /\ pc' = "peers_done"
    /\ UNCHANGED <<peers, results, completion, requests>>
    /\ UnchangedByPeers

\* tasks = [get_entity(p) for p in peers]; gather starts them all
PeersStart ==
    /\ pc = "peers_call"
    /\ peers # <<>>
    /\ results' = [i \in DOMAIN peers |-> Pending]
    /\ requests' = requests + Len(peers)
    /\ pc' = "peers_gather"
    /\ UNCHANGED <<peers, completion, names>>
    /\ UnchangedByPeers

\* get_entity(peers[i]) returns the entity
TaskReturns(i) ==
    /\ pc = "peers_gather"
    /\ results[i] = Pending
    /\ results' = GatherStore(results, i, Returned(EntityOf(peers[i])))
    /\ completion' = Append(completion, i)
    /\ UNCHANGED <<pc, peers, requests, names>>
    /\ UnchangedByPeers

\* get_entity(peers[i]) raises
TaskRaises(i) ==
    /\ pc = "peers_gather"
    /\ results[i] = Pending
    /\ results' = GatherStore(results, i, Raised)
    /\ completion' = Append(completion, i)
    /\ UNCHANGED <<pc, peers, requests, names>>
    /\ UnchangedByPeers

\* gather returns once every task is done; the loop builds names
PeersCollect ==
    /\ pc = "peers_gather"
    /\ \A i \in DOMAIN results : results[i] # Pending
    /\ names' = NamesLoop(peers, results, 1, <<>>)
    /\ pc' = "peers_done"
    /\ UNCHANGED <<peers, results, completion, requests>>
    /\ UnchangedByPeers

NextPeers ==
    \/ PeersEmpty
    \/ PeersStart
    \/ \E i \in DOMAIN results : TaskReturns(i)
    \/ \E i \in DOMAIN results : TaskRaises(i)
    \/ PeersCollect

SpecPeers == InitPeers /\ [][NextPeers]_vars

\* C3: the names returned are as many as the peers, entry i is the name of
\* peers[i]'s entity, or peers[i]'s placeholder if its resolution raised,
\* whatever the other peers did and in whatever order the tasks completed; one
\* request is issued per peer, and none on empty input.
C3_ResolverAligned ==
    pc = "peers_done" =>
        /\ Len(names) = Len(peers)
        /\ requests = Len(peers)
        /\ \A i \in DOMAIN peers :
              LET p == peers[i]
                  e == EntityOf(p)
                  idtext == IF "channel_id" \in DOMAIN p THEN ToString(p.channel_id)
                            ELSE IF "user_id" \in DOMAIN p THEN ToString(p.user_id)
                            ELSE "N/A"
              IN  names[i] =
                     IF results[i].state = "exception"
                     THEN "Unknown/Inaccessible Entity (ID: " \o idtext \o ")"
                     ELSE IF "title" \in DOMAIN e THEN e.title ELSE e.first_name

\* the second task completed first, the first one failed and the second one
\* succeeded
C3_Witness ==
    /\ pc = "peers_done"
    /\ completion = <<2, 1>>
    /\ results[1].state = "exception"
    /\ results[2].state = "ok"
    /\ peers[1] # peers[2]
    /\ Len(names) = 2

\* C9: the entry of a peer whose resolution failed is a non-empty string that
\* contains the peer's own identifier (channel_id, chat_id or user_id).
C9_PlaceholderEmbedsId ==
    pc = "peers_done" =>
        \A i \in DOMAIN peers :
            results[i].state = "exception" =>
                LET p == peers[i]
                    rawid == IF "channel_id" \in DOMAIN p THEN p.channel_id
                             ELSE IF "chat_id" \in DOMAIN p THEN p.chat_id
                             ELSE p.user_id
                    text == ToString(rawid)
                IN  /\ Len(names[i]) > 0
                    /\ \E k \in 1..Len(names[i]) :
                          SubSeq(names[i], k, k + Len(text) - 1) = text

(***************************************************************************)
(* _extract_folders: one iteration of `for folder in selected_folders`     *)
(***************************************************************************)
\* a matcher fed with a list refetched for each folder
MatchSnapshot_refetched == serverDialogs

\* the all_dialogs argument of _get_rule_based_chat_names(folder, all_dialogs)
MatchSnapshot == all_dialogs

\* the included list without the subtraction of the excluded names
FinalIncludedNames_noExclusion(incl, rule, excl) ==
    Sorted(Range(incl) \cup Range(rule))

\* sorted([name for name in set(incl) | set(rule) if name not in excl])
FinalIncludedNames(incl, rule, excl) ==
    LET combined_included_set == Range(incl) \cup Range(rule)
    IN  Sorted({name \in combined_included_set : name \notin Range(excl)})

FolderRecord(f, pinned, included, excluded) ==
    [folder_id |-> f.id, pinned_chats |-> pinned, included_chats |-> included,
     excluded_chats |-> excluded, rules |-> f.rules]

\* the loop body for the next folder of selected_folders; failP, failI, failX are
\* the positions of the pinned, included and excluded peers whose get_entity raises
ProcessFolder(failP, failI, failX) ==
    /\ pc = "folders_loop"
    /\ folderIdx < Len(selected_folders)
    /\ LET f == selected_folders[folderIdx + 1]
           pinned_names == GetNamesForPeers(f.pinned_peers, failP)
           incl == GetNamesForPeers(f.include_peers, failI)
           excl == GetNamesForPeers(f.exclude_peers, failX)
           rule == GetRuleBasedChatNames(f, MatchSnapshot)
           final_included_names == FinalIncludedNames(incl, rule, excl)
       IN  /\ failP \subseteq DOMAIN f.pinned_peers
           /\ failI \subseteq DOMAIN f.include_peers
           /\ failX \subseteq DOMAIN f.exclude_peers
           /\ folder' = f
           /\ explicitly_included_names' = incl
           /\ explicitly_excluded_names' = excl
           /\ rule_based_names' = rule
           /\ matched_against' = Append(matched_against, MatchSnapshot)
           /\ extracted_data' =
                 Append(extracted_data,
                        FolderRecord(f, pinned_names, final_included_names, excl))
    /\ folderIdx' = folderIdx + 1
    \* after the last folder: if extracted_data: self._export_data(...)
    /\ pc' = IF folderIdx + 1 = Len(selected_folders) THEN "export_prompt"
             ELSE "folders_loop"
    /\ UNCHANGED <<loginVars, runVars, peerVars, choices, folders, all_dialogs,
                   selected_folders>>

(***************************************************************************)
(* The loop body applied to every folder over a pool of peers              *)
(***************************************************************************)
RulePool ==
    {NoRules,
     [NoRules EXCEPT !.groups = TRUE, !.exclude_muted = TRUE],
     [NoRules EXCEPT !.contacts = TRUE, !.broadcasts = TRUE, !.bots = TRUE]}

FolderPeerPool == {PeerUser(1), PeerChat(2), PeerChannel(3)}

DialogLists ==
    {<<MkDialog("Alice", FALSE, FALSE, TRUE, [contact |-> TRUE, bot |-> FALSE],
                FALSE, 1, FALSE, FALSE),
       MkDialog("Team Alpha", TRUE, FALSE, FALSE, OtherEntity, FALSE, 0, FALSE, FALSE),
       MkDialog("Team Beta", TRUE, TRUE, FALSE, OtherEntity, TRUE, 0, FALSE, TRUE),
       MkDialog("News", FALSE, TRUE, FALSE, OtherEntity, FALSE, 2, FALSE, FALSE)>>,
     <<MkDialog("Team Beta", TRUE, TRUE, FALSE, OtherEntity, FALSE, 0, FALSE, TRUE),
       MkDialog("Bob", FALSE, FALSE, TRUE, [contact |-> FALSE, bot |-> FALSE],
                FALSE, 0, TRUE, FALSE),
       MkDialog("Team Beta", TRUE, FALSE, FALSE, OtherEntity, FALSE, 0, FALSE, FALSE),
       MkDialog("Ghost", FALSE, FALSE, FALSE, OtherEntity, FALSE, 0, FALSE, FALSE)>>}

FolderSpace ==
    {MkFolder(1, r, <<>>, incl, excl) :
        r \in RulePool,
        incl \in SeqsUpTo(FolderPeerPool, MaxPeers),
        excl \in SeqsUpTo(FolderPeerPool, MaxExcluded)}

\* the state of a run in which the user is logged in, has chosen the folder
\* extractor and the only folder of the account
InitFolder ==
    /\ pc = "folders_loop"
    /\ connected = TRUE /\ authorized = TRUE /\ login_result = "true"
    /\ sent_code = None /\ codeRequests = 0 /\ used_hash = None /\ attempts = 0
    /\ lastError = "none" /\ interrupted = FALSE
    /\ menuActions = 1 /\ folderCalls = 1 /\ dialogFetches = 1 /\ exports = 0
    /\ serverDialogs \in DialogLists
    /\ all_dialogs = serverDialogs
    /\ \E f \in FolderSpace : folders = <<f>>
    /\ selected_folders = folders
    /\ choices = {1}
    /\ folderIdx = 0 /\ folder = NoFolder
    /\ explicitly_included_names = <<>> /\ explicitly_excluded_names = <<>>
    /\ rule_based_names = <<>> /\ matched_against = <<>> /\ extracted_data = <<>>
    /\ IdlePeers

NextFolder ==
    \E failP \in SUBSET (1..MaxPeers), failI \in SUBSET (1..MaxPeers),
       failX \in SUBSET (1..MaxPeers) : ProcessFolder(failP, failI, failX)

SpecFolder == InitFolder /\ [][NextFolder]_vars

AllNames ==
    {"Alice", "Bob", "Ghost", "News", "Team Alpha", "Team Beta"}
    \cup {PlaceholderName(p) : p \in PeerPool}

\* C1: the record of a processed folder lists in included_chats exactly the
\* names that are explicitly included or rule-matched and not explicitly
\* excluded, in ascending order and each once.
C1_IncludedIsUnionMinusExcluded ==
    \A k \in DOMAIN extracted_data :
        (k = Len(extracted_data) /\ "included_chats" \in DOMAIN extracted_data[k]) =>
            LET inc == extracted_data[k].included_chats
                E == Range(explicitly_included_names)
                R == Range(rule_based_names)
                X == Range(explicitly_excluded_names)
            IN  /\ \A nm \in AllNames \cup E \cup R \cup X \cup Range(inc) :
                      (nm \in Range(inc)) <=> ((nm \in E \/ nm \in R) /\ nm \notin X)
                /\ \A i \in 1..Len(inc) : \A j \in 1..Len(inc) :
                      i < j => StrLess(inc[i], inc[j])

\* a name both explicitly included and rule-matched is removed by the
\* exclusion, while two names reaching the record from different paths are
\* listed in order
C1_Witness ==
    /\ pc = "export_prompt"
    /\ Len(extracted_data) = 1
    /\ "included_chats" \in DOMAIN extracted_data[1]
    /\ \E nm \in Range(explicitly_included_names) :
          /\ nm \in Range(rule_based_names)
          /\ nm \in Range(explicitly_excluded_names)
          /\ nm \notin Range(extracted_data[1].included_chats)
    /\ Len(extracted_data[1].included_chats) >= 2
    /\ \E nm \in Range(extracted_data[1].included_chats) :
          nm \notin Range(rule_based_names)
    /\ \E nm \in Range(extracted_data[1].included_chats) :
          nm \notin Range(explicitly_included_names)

(***************************************************************************)
(* run(): login                                                            *)
(***************************************************************************)
ResetLocals ==
    /\ choices' = {} /\ folders' = <<>> /\ all_dialogs' = <<>>
    /\ selected_folders' = <<>> /\ folderIdx' = 0 /\ folder' = NoFolder
    /\ explicitly_included_names' = <<>> /\ explicitly_excluded_names' = <<>>
    /\ rule_based_names' = <<>> /\ matched_against' = <<>>
    /\ extracted_data' = <<>>

\* a login that returns True after connecting, authorized or not
ConnectOk_noAuthCheck ==
    /\ pc = "start"
    /\ connected' = TRUE
    /\ lastError' = "none"
    /\ login_result' = "true" /\ pc' = "menu"
    /\ UNCHANGED <<authorized, sent_code, codeRequests, used_hash, attempts>>
    /\ UNCHANGED <<interrupted, menuActions, serverDialogs, dialogFetches,
                   folderCalls, exports, localVars, peerVars>>

\* await self.client.connect(); if is_user_authorized(): return True; else the
\* while loop is entered with sent_code = None
ConnectOk ==
    /\ pc = "start"
    /\ connected' = TRUE
    /\ lastError' = "none"
    /\ IF authorized
       THEN login_result' = "true" /\ pc' = "menu"
       ELSE login_result' = login_result /\ pc' = "send_code"
    /\ UNCHANGED <<authorized, sent_code, codeRequests, used_hash, attempts>>
    /\ UNCHANGED <<interrupted, menuActions, serverDialogs, dialogFetches,
                   folderCalls, exports, localVars, peerVars>>

\* connect() raises: the exception leaves _handle_login and is caught by run
ConnectRaises ==
    /\ pc = "start"
    /\ lastError' = "ConnectionError"
    /\ login_result' = "raised"
    /\ pc' = "finally"
    /\ UNCHANGED <<connected, authorized, sent_code, codeRequests, used_hash, attempts>>
    /\ UNCHANGED <<interrupted, menuActions, serverDialogs, dialogFetches,
                   folderCalls, exports, localVars, peerVars>>

\* sent_code = await self.client.send_code_request(phone_number)
SendCodeOk ==
    /\ pc = "send_code"
    /\ sent_code = None
    /\ codeRequests' = codeRequests + 1
    /\ sent_code' = codeRequests + 1
    /\ lastError' = "none"
    /\ pc' = "sign_in"
    /\ UNCHANGED <<connected, authorized, used_hash, attempts, login_result>>
    /\ UNCHANGED <<interrupted, menuActions, serverDialogs, dialogFetches,
                   folderCalls, exports, localVars, peerVars>>

\* except (ApiIdInvalidError, ValueError) / except Exception: return False
LoginFatal(err) ==
    /\ pc \in {"send_code", "sign_in"}
    /\ lastError' = err
    /\ login_result' = "false"
    /\ pc' = "finally"
    /\ UNCHANGED <<connected, authorized, sent_code, codeRequests, used_hash, attempts>>
    /\ UNCHANGED <<interrupted, menuActions, serverDialogs, dialogFetches,
                   folderCalls, exports, localVars, peerVars>>

\* sign_in(phone, code, phone_code_hash=sent_code.phone_code_hash) succeeds; the
\* while condition is now false: return True
SignInOk ==
    /\ pc = "sign_in"
    /\ used_hash' = sent_code
    /\ attempts' = attempts + 1
    /\ authorized' = TRUE
    /\ lastError' = "none"
    /\ login_result' = "true"
    /\ pc' = "menu"
    /\ UNCHANGED <<connected, sent_code, codeRequests>>
    /\ UNCHANGED <<interrupted, menuActions, serverDialogs, dialogFetches,
                   folderCalls, exports, localVars, peerVars>>

\* except PhoneCodeInvalidError: print; the loop goes round with sent_code kept
SignInCodeInvalid ==
    /\ pc = "sign_in"
    /\ attempts < MaxAttempts
    /\ used_hash' = sent_code
    /\ attempts' = attempts + 1
    /\ lastError' = "PhoneCodeInvalidError"
    /\ pc' = "sign_in"
    /\ UNCHANGED <<connected, authorized, sent_code, codeRequests, login_result>>
    /\ UNCHANGED <<interrupted, menuActions, serverDialogs, dialogFetches,
                   folderCalls, exports, localVars, peerVars>>

\* an expiry handled like an invalid code: the expired challenge is kept
SignInCodeExpired_keepsChallenge ==
    /\ pc = "sign_in"
    /\ attempts < MaxAttempts
    /\ used_hash' = sent_code
    /\ attempts' = attempts + 1
    /\ lastError' = "PhoneCodeExpiredError"
    /\ pc' = "sign_in"
    /\ UNCHANGED <<connected, authorized, sent_code, codeRequests, login_result>>
    /\ UNCHANGED <<interrupted, menuActions, serverDialogs, dialogFetches,
                   folderCalls, exports, localVars, peerVars>>

\* except PhoneCodeExpiredError: sent_code = None; the loop goes round
SignInCodeExpired ==
    /\ pc = "sign_in"
    /\ attempts < MaxAttempts
    /\ used_hash' = sent_code
    /\ attempts' = attempts + 1
    /\ lastError' = "PhoneCodeExpiredError"
    /\ sent_code' = None
    /\ pc' = "send_code"
    /\ UNCHANGED <<connected, authorized, codeRequests, login_result>>
    /\ UNCHANGED <<interrupted, menuActions, serverDialogs, dialogFetches,
                   folderCalls, exports, localVars, peerVars>>

\* except SessionPasswordNeededError: the inner while True loop is entered
SignInPasswordNeeded ==
    /\ pc = "sign_in"
    /\ used_hash' = sent_code
    /\ attempts' = attempts + 1
    /\ lastError' = "SessionPasswordNeededError"
    /\ pc' = "password"
    /\ UNCHANGED <<connected, authorized, sent_code, codeRequests, login_result>>
    /\ UNCHANGED <<interrupted, menuActions, serverDialogs, dialogFetches,
                   folderCalls, exports, localVars, peerVars>>

\* sign_in(password=...) succeeds: break; the while condition is false: return True
PasswordOk ==
    /\ pc = "password"
    /\ authorized' = TRUE
    /\ lastError' = "none"
    /\ login_result' = "true"
    /\ pc' = "menu"
    /\ UNCHANGED <<connected, sent_code, codeRequests, used_hash, attempts>>
    /\ UNCHANGED <<interrupted, menuActions, serverDialogs, dialogFetches,
                   folderCalls, exports, localVars, peerVars>>

\* except PasswordHashInvalidError: print; the inner loop goes round
PasswordInvalid ==
    /\ pc = "password"
    /\ attempts < MaxAttempts
    /\ attempts' = attempts + 1
    /\ lastError' = "PasswordHashInvalidError"
    /\ pc' = "password"
    /\ UNCHANGED <<connected, authorized, sent_code, codeRequests, used_hash,
                   login_result>>
    /\ UNCHANGED <<interrupted, menuActions, serverDialogs, dialogFetches,
                   folderCalls, exports, localVars, peerVars>>

\* any other exception of sign_in(password=...) is raised inside an except
\* clause: it leaves _handle_login and is caught by run
PasswordRaises ==
    /\ pc = "password"
    /\ lastError' = "Exception"
    /\ login_result' = "raised"
    /\ pc' = "finally"
    /\ UNCHANGED <<connected, authorized, sent_code, codeRequests, used_hash, attempts>>
    /\ UNCHANGED <<interrupted, menuActions, serverDialogs, dialogFetches,
                   folderCalls, exports, localVars, peerVars>>

(***************************************************************************)
(* run(): the main menu                                                    *)
(***************************************************************************)
\* main_choice == '1'
MenuMaster ==
    /\ pc = "menu"
    /\ menuActions < MaxMenuActions
    /\ menuActions' = menuActions + 1
    /\ lastError' = "none"
    /\ pc' = "master_input"
    /\ UNCHANGED <<loginVars, interrupted, serverDialogs, dialogFetches, folderCalls,
                   exports, localVars, peerVars>>

\* main_choice == '2'
MenuFolders ==
    /\ pc = "menu"
    /\ menuActions < MaxMenuActions
    /\ menuActions' = menuActions + 1
    /\ folderCalls' = folderCalls + 1
    /\ lastError' = "none"
    /\ pc' = "folders_filters"
    /\ UNCHANGED <<loginVars, interrupted, serverDialogs, dialogFetches, exports,
                   localVars, peerVars>>

\* main_choice == '3': break
MenuExit ==
    /\ pc = "menu"
    /\ lastError' = "none"
    /\ pc' = "finally"
    /\ UNCHANGED <<loginVars, interrupted, menuActions, serverDialogs, dialogFetches,
                   folderCalls, exports, localVars, peerVars>>

(***************************************************************************)
(* _extract_master_list                                                    *)
(***************************************************************************)
Filters == [c \in 1..4 |-> <<"Personal", "Group", "Channel", "Bot">>[c]]

\* selected_types = {filters[c] for c in choices if c in filters};
\* if 5 in choices: selected_types.update(filters.values())
SelectedTypes(cs) ==
    LET selected_types == {Filters[c] : c \in cs \cap DOMAIN Filters}
    IN  IF 5 \in cs THEN selected_types \cup Range(Filters) ELSE selected_types

\* if not selected_types or chat_type in selected_types
MasterKeeps(selected_types, dialog) ==
    selected_types = {} \/ GetChatTypeString(dialog) \in selected_types

MasterRecord(dialog) ==
    [chat_name |-> dialog.name, chat_type |-> GetChatTypeString(dialog),
     is_archived |-> dialog.archived]

\* async for dialog in self.client.iter_dialogs(): ... extracted_data.append(...)
RECURSIVE MasterLoop(_, _, _, _)
MasterLoop(dialogs, selected_types, i, acc) ==
    IF i > Len(dialogs) THEN acc
    ELSE IF MasterKeeps(selected_types, dialogs[i])
         THEN MasterLoop(dialogs, selected_types, i + 1,
                         Append(acc, MasterRecord(dialogs[i])))
    ELSE MasterLoop(dialogs, selected_types, i + 1, acc)

\* the input loop ends with a valid choice: a non-empty set of numbers 1..5
MasterInput(cs) ==
    /\ pc = "master_input"
    /\ cs # {} /\ cs \subseteq 1..5
    /\ choices' = cs
    /\ pc' = "master_iter"
    /\ UNCHANGED <<loginVars, runVars, peerVars, folders, all_dialogs,
                   selected_folders, folderIdx, folder, explicitly_included_names,
                   explicitly_excluded_names, rule_based_names, matched_against,
                   extracted_data>>

\* the dialogs are iterated; the data is handed to _export_data, or there is none
MasterIterate ==
    /\ pc = "master_iter"
    /\ LET data == MasterLoop(serverDialogs, SelectedTypes(choices), 1, <<>>)
       IN  IF data # <<>>
           THEN /\ extracted_data' = data
                /\ pc' = "export_prompt"
                /\ UNCHANGED <<choices, folders, all_dialogs, selected_folders,
                               folderIdx, folder, explicitly_included_names,
                               explicitly_excluded_names, rule_based_names,
                               matched_against>>
           ELSE /\ ResetLocals
                /\ pc' = "menu"
    /\ lastError' = "none"
    /\ UNCHANGED <<loginVars, interrupted, menuActions, serverDialogs, dialogFetches,
                   folderCalls, exports, peerVars>>

\* iter_dialogs() raises: nothing in _extract_master_list catches it, run's
\* except Exception does
MasterIterateRaises ==
    /\ pc = "master_iter"
    /\ lastError' = "IterDialogsFailed"
    /\ ResetLocals
    /\ pc' = "finally"
    /\ UNCHANGED <<loginVars, interrupted, menuActions, serverDialogs, dialogFetches,
                   folderCalls, exports, peerVars>>

(***************************************************************************)
(* _extract_folders                                                        *)
(***************************************************************************)
DefaultFilter == [type |-> "DialogFilterDefault"]

FolderA ==
    MkFolder(1, [NoRules EXCEPT !.groups = TRUE, !.exclude_muted = TRUE],
             <<PeerChannel(3)>>, <<PeerUser(1)>>, <<PeerChat(2)>>)
FolderB ==
    MkFolder(2, [NoRules EXCEPT !.contacts = TRUE, !.broadcasts = TRUE],
             <<>>, <<PeerChat(2)>>, <<>>)

\* what GetDialogFiltersRequest may answer in .filters
FilterLists == {<<DefaultFilter>>, <<DefaultFilter, FolderA>>,
                <<DefaultFilter, FolderA, FolderB>>}

IsDialogFilter(f) == f.type = "DialogFilter"

\* the request is answered; folders = [f for f in ....filters if isinstance(f,
\* types.DialogFilter)]; if not folders: return
FiltersFetched(filters) ==
    /\ pc = "folders_filters"
    /\ filters \in FilterLists
    /\ lastError' = "none"
    /\ LET fs == SelectSeq(filters, IsDialogFilter)
       IN  IF fs = <<>>
           THEN ResetLocals /\ pc' = "menu"
           ELSE /\ folders' = fs
                /\ pc' = "folders_dialogs"
                /\ UNCHANGED <<choices, all_dialogs, selected_folders, folderIdx,
                               folder, explicitly_included_names,
                               explicitly_excluded_names, rule_based_names,
                               matched_against, extracted_data>>
    /\ UNCHANGED <<loginVars, interrupted, menuActions, serverDialogs, dialogFetches,
                   folderCalls, exports, peerVars>>

\* except Exception as e: logging.error(...); return
FiltersFetchRaises ==
    /\ pc = "folders_filters"
    /\ lastError' = "GetDialogFiltersFailed"
    /\ ResetLocals
    /\ pc' = "menu"
    /\ UNCHANGED <<loginVars, interrupted, menuActions, serverDialogs, dialogFetches,
                   folderCalls, exports, peerVars>>

\* all_dialogs = await self.client.get_dialogs()
DialogsFetched ==
    /\ pc = "folders_dialogs"
    /\ all_dialogs' = serverDialogs
    /\ dialogFetches' = dialogFetches + 1
    /\ lastError' = "none"
    /\ pc' = "folders_input"
    /\ UNCHANGED <<loginVars, interrupted, menuActions, serverDialogs, folderCalls,
                   exports, peerVars, choices, folders, selected_folders, folderIdx,
                   folder, explicitly_included_names, explicitly_excluded_names,
                   rule_based_names, matched_against, extracted_data>>

\* get_dialogs() raises: nothing in _extract_folders catches it, run's except
\* Exception does
DialogsFetchRaises ==
    /\ pc = "folders_dialogs"
    /\ dialogFetches' = dialogFetches + 1
    /\ lastError' = "GetDialogsFailed"
    /\ ResetLocals
    /\ pc' = "finally"
    /\ UNCHANGED <<loginVars, interrupted, menuActions, serverDialogs, folderCalls,
                   exports, peerVars>>

\* [folders[i - 1] for i in choices if 1 <= i <= len(folders)], by ascending i
RECURSIVE PickFolders(_, _, _)
PickFolders(fs, cs, i) ==
    IF i > Len(fs) THEN <<>>
    ELSE (IF i \in cs THEN <<fs[i]>> ELSE <<>>) \o PickFolders(fs, cs, i + 1)

\* the input loop ends with a valid choice: numbers 1..len(folders)+1
FoldersInput(cs) ==
    /\ pc = "folders_input"
    /\ cs # {} /\ cs \subseteq 1..(Len(folders) + 1)
    /\ choices' = cs
    /\ selected_folders' = IF Len(folders) + 1 \in cs THEN folders
                           ELSE PickFolders(folders, cs, 1)
    /\ extracted_data' = <<>>
    /\ folderIdx' = 0
    /\ pc' = "folders_loop"
    /\ UNCHANGED <<loginVars, runVars, peerVars, folders, all_dialogs, folder,
                   explicitly_included_names, explicitly_excluded_names,
                   rule_based_names, matched_against>>

(***************************************************************************)
(* _export_data, the interrupt and the end of run                          *)
(***************************************************************************)
\* a format is chosen and the file is written, or the write raises IOError,
\* which is logged; either way the extractor returns to the menu
ExportData(err) ==
    /\ pc = "export_prompt"
    /\ err \in {"none", "IOError"}
    /\ exports' = exports + 1
    /\ lastError' = err
    /\ ResetLocals
    /\ pc' = "menu"
    /\ UNCHANGED <<loginVars, interrupted, menuActions, serverDialogs, dialogFetches,
                   folderCalls, peerVars>>

TryBody ==
    {"start", "send_code", "sign_in", "password", "menu", "master_input",
     "master_iter", "folders_filters", "folders_dialogs", "folders_input",
     "folders_loop", "export_prompt"}

\* Ctrl+C inside run's try: except KeyboardInterrupt
Interrupt ==
    /\ pc \in TryBody
    /\ interrupted' = TRUE
    /\ lastError' = "KeyboardInterrupt"
    /\ login_result' = IF login_result = "pending" THEN "raised" ELSE login_result
    /\ pc' = "finally"
    /\ UNCHANGED <<connected, authorized, sent_code, codeRequests, used_hash, attempts>>
    /\ UNCHANGED <<menuActions, serverDialogs, dialogFetches, folderCalls, exports,
                   localVars, peerVars>>

\* a run that ends without its finally clause
RunFinally_noDisconnect ==
    /\ pc = "finally"
    /\ pc' = "done"
    /\ UNCHANGED <<loginVars, runVars, localVars, peerVars>>

\* finally: if self.client.is_connected(): await self.client.disconnect()
RunFinally ==
    /\ pc = "finally"
    /\ connected' = FALSE
    /\ pc' = "done"
    /\ UNCHANGED <<authorized, sent_code, codeRequests, used_hash, attempts,
                   login_result, runVars, localVars, peerVars>>

\* the account changes on the server while the program runs
ServerChanges(dialogs) ==
    /\ pc \notin {"finally", "done"}
    /\ dialogs \in DialogLists
    /\ dialogs # serverDialogs
    /\ serverDialogs' = dialogs
    /\ UNCHANGED <<pc, loginVars, lastError, interrupted, menuActions, dialogFetches,
                   folderCalls, exports, localVars, peerVars>>

Init ==
    /\ pc = "start"
    /\ connected = FALSE
    /\ authorized \in BOOLEAN
    /\ sent_code = None /\ codeRequests = 0 /\ used_hash = None /\ attempts = 0
    /\ lastError = "none" /\ login_result = "pending" /\ interrupted = FALSE
    /\ menuActions = 0 /\ dialogFetches = 0 /\ folderCalls = 0 /\ exports = 0
    /\ serverDialogs \in DialogLists
    /\ choices = {}
    /\ all_dialogs = <<>> /\ folder = NoFolder /\ rule_based_names = <<>>
    /\ IdleFolders /\ IdlePeers

Next ==
    \/ ConnectOk
    \/ ConnectRaises
    \/ SendCodeOk
    \/ \E err \in {"ApiIdInvalidError", "ValueError", "Exception"} : LoginFatal(err)
    \/ SignInOk
    \/ SignInCodeInvalid
    \/ SignInCodeExpired
    \/ SignInPasswordNeeded
    \/ PasswordOk
    \/ PasswordInvalid
    \/ PasswordRaises
    \/ MenuMaster
    \/ MenuFolders
    \/ MenuExit
    \/ \E cs \in SUBSET (1..5) : MasterInput(cs)
    \/ MasterIterate
    \/ MasterIterateRaises
    \/ \E filters \in FilterLists : FiltersFetched(filters)
    \/ FiltersFetchRaises
    \/ DialogsFetched
    \/ DialogsFetchRaises
    \/ \E cs \in SUBSET (1..(Len(folders) + 1)) : FoldersInput(cs)
    \/ \E failP \in SUBSET (1..MaxPeers), failI \in SUBSET (1..MaxPeers),
          failX \in SUBSET (1..MaxPeers) : ProcessFolder(failP, failI, failX)
    \/ \E err \in {"none", "IOError"} : ExportData(err)
    \/ Interrupt
    \/ RunFinally
    \/ \E dialogs \in DialogLists : ServerChanges(dialogs)

Spec == Init /\ [][Next]_vars

(***************************************************************************)
(* Properties of run()                                                     *)
(***************************************************************************)
CorePcs ==
    {"menu", "master_input", "master_iter", "folders_filters", "folders_dialogs",
     "folders_input", "folders_loop", "export_prompt"}

UpstreamFailures == {"GetDialogFiltersFailed", "GetDialogsFailed", "IterDialogsFailed"}

\* C4: after an upstream fetch failure of a menu action the program is back at
\* the main menu with the session still connected and nothing to export.
C4_FetchFailureReturnsToMenu ==
    lastError \in UpstreamFailures =>
        (pc = "menu" /\ connected /\ extracted_data = <<>>)

\* C5: the menu and the extractors are reached only connected and authorized,
\* _handle_login returns True only when authorized, and a login that returned
\* False or raised is followed by the end of run with no extraction or export.
C5_CoreOnlyWhenAuthorized ==
    /\ pc \in CorePcs => (connected /\ authorized /\ login_result = "true")
    /\ login_result = "true" => authorized
    /\ login_result \in {"false", "raised"} =>
          /\ pc \in {"finally", "done"}
          /\ menuActions = 0 /\ dialogFetches = 0 /\ folderCalls = 0
          /\ exports = 0 /\ extracted_data = <<>>

\* folders are being processed in a session that was signed in interactively
C5_Witness ==
    /\ pc = "folders_loop"
    /\ folderIdx = 1
    /\ attempts >= 1
    /\ connected /\ authorized

\* C6: an invalid code is followed by another sign_in with the same challenge
\* and no new code request; an expired code discards the challenge, a new code
\* request follows and the sign_in after it uses the new challenge; an invalid
\* 2FA password is followed by another password attempt; none of the three ends
\* _handle_login.
C6_AuthErrorsReprompt ==
    [][/\ (pc = "sign_in" /\ attempts' = attempts + 1
             /\ lastError' = "PhoneCodeInvalidError") =>
              /\ pc' = "sign_in"
              /\ sent_code' = sent_code /\ sent_code' # None
              /\ codeRequests' = codeRequests
              /\ login_result' = "pending"
       /\ (pc = "sign_in" /\ attempts' = attempts + 1
             /\ lastError' = "PhoneCodeExpiredError") =>
              /\ pc' = "send_code"
              /\ sent_code' = None
              /\ login_result' = "pending"
       /\ (pc = "send_code" /\ pc' = "sign_in") =>
              /\ codeRequests' = codeRequests + 1
              /\ sent_code' = codeRequests'
       /\ (pc = "sign_in" /\ attempts' = attempts + 1) =>
              /\ used_hash' = sent_code
              /\ sent_code # None /\ sent_code = codeRequests
       /\ (pc = "password" /\ attempts' = attempts + 1
             /\ lastError' = "PasswordHashInvalidError") =>
              /\ pc' = "password"
              /\ login_result' = "pending"
      ]_vars

\* the first challenge expired at a sign_in, a second one was requested and is
\* the one the next sign_in will use
C6_Witness ==
    /\ pc = "sign_in"
    /\ attempts = 1
    /\ used_hash = 1
    /\ codeRequests = 2
    /\ sent_code = 2

C8_FetchedOncePerRun == dialogFetches <= 1

\* C8 amended: get_dialogs is called at most once per invocation of
\* _extract_folders, and every folder processed in an invocation was matched
\* against the list that invocation fetched.
C8_OneSnapshotPerExtraction ==
    /\ dialogFetches <= folderCalls
    /\ Len(matched_against) = folderIdx
    /\ \A i \in DOMAIN matched_against : matched_against[i] = all_dialogs

\* two folders were processed in the second extraction of a run while the
\* account had changed on the server since the fetch
C8_Witness ==
    /\ pc = "export_prompt"
    /\ Len(matched_against) = 2
    /\ dialogFetches = 2
    /\ serverDialogs # all_dialogs

\* C10: with option 5 among the choices every dialog iterated is in the
\* extracted list; with options among 1-4 only, exactly the dialogs of the
\* chosen types are.
C10_AllIncludesEveryDialog ==
    [][(pc = "master_iter" /\ pc' \in {"export_prompt", "menu"}) =>
          LET Chosen(d) == \/ 5 \in choices
                           \/ \E c \in choices \cap 1..4 :
                                 GetChatTypeString(d) = Filters[c]
              kept == SelectSeq(serverDialogs, Chosen)
          IN  extracted_data' = [i \in DOMAIN kept |-> MasterRecord(kept[i])]
      ]_vars

====
